---- MODULE Spec2Model ----
(***************************************************************************)
(* Model of dollar_investment_screener_web.py: the gap-ratio / fair-value  *)
(* calculator, the four-condition recommendation, the DXY trend classifier *)
(* and the investment sizing calculator with its scenario table.           *)
(*                                                                         *)
(* Numbers are rationals <<n, d>> with d > 0 in lowest terms; the Python   *)
(* value None is the empty tuple.  The gap calculator and the conditions   *)
(* round every operation to the nearest float of MantissaBits significant  *)
(* bits, ties to even, as binary64 does with 53: their comparisons at a    *)
(* tie are decided by that rounding.  The trend and the sizing arithmetic  *)
(* is exact.                                                               *)
(***************************************************************************)
EXTENDS Integers, Sequences, FiniteSets, TLC

\* ------------------------------------------------------------------ bounds
MaxPrice == 3
MaxDxy == 2
MaxLen == 2
MaxWindow == 2
MaxMargin == 1
MaxFlat == 20
MaxTail == 3
MaxTrendPrice == 3
MaxAmountUnits == 10
MaxRateIdx == 3
MantissaBits == 7

\* ------------------------------------------------------ program constants
TrendWindow == 20
ShortWindow == 5
AmountStep == 100000

\* -------------------------------------------------------------- arithmetic
None == <<>>

Abs(x) == IF x < 0 THEN -x ELSE x

RECURSIVE GCD(_, _)
GCD(a, b) == IF b = 0 THEN a ELSE GCD(b, a % b)

Norm(n, d) ==
    LET s == IF d < 0 THEN -1 ELSE 1
        g == GCD(Abs(n), Abs(d))
    IN  <<(s * n) \div g, (s * d) \div g>>

R(n) == <<n, 1>>
RAdd(a, b) == Norm(a[1] * b[2] + b[1] * a[2], a[2] * b[2])
RSub(a, b) == Norm(a[1] * b[2] - b[1] * a[2], a[2] * b[2])
RMul(a, b) ==
    LET x == Norm(a[1], b[2])
        y == Norm(b[1], a[2])
    IN  Norm(x[1] * y[1], x[2] * y[2])
RDiv(a, b) == RMul(a, Norm(b[2], b[1]))
RLt(a, b) == a[1] * b[2] < b[1] * a[2]
RGt(a, b) == RLt(b, a)
RGe(a, b) == ~RLt(a, b)
RLe(a, b) == ~RLt(b, a)

\* ---------------------------------------------------------- float rounding
Pow2(k) == 2 ^ k

\* How often n / d is doubled, or halved, to bring it into
\* [2^(MantissaBits-1), 2^MantissaBits).
RECURSIVE UpShift(_, _)
UpShift(n, d) ==
    IF n >= Pow2(MantissaBits - 1) * d THEN 0 ELSE 1 + UpShift(2 * n, d)

RECURSIVE DownShift(_, _)
DownShift(n, d) ==
    IF n < Pow2(MantissaBits) * d THEN 0 ELSE 1 + DownShift(n, 2 * d)

\* n / d rounded to the nearest integer, ties to even.
RoundDiv(n, d) ==
    LET q == n \div d
    IN  IF 2 * (n - q * d) < d THEN q
        ELSE IF 2 * (n - q * d) > d THEN q + 1
        ELSE IF q % 2 = 0 THEN q ELSE q + 1

\* a / d brought into the mantissa's range by 2^k / 2^j, rounded there and
\* scaled back.
FlShifted(s, a, d, k, j) ==
    Norm(s * RoundDiv(a * Pow2(k), d * Pow2(j)) * Pow2(j), Pow2(k))

\* The float nearest to x, ties to even.
Fl(x) ==
    IF x[1] = 0 THEN x
    ELSE FlShifted(IF x[1] < 0 THEN -1 ELSE 1, Abs(x[1]), x[2],
                   UpShift(Abs(x[1]), x[2]), DownShift(Abs(x[1]), x[2]))

FAdd(a, b) == Fl(RAdd(a, b))
FSub(a, b) == Fl(RSub(a, b))
FMul(a, b) == Fl(RMul(a, b))
FDiv(a, b) == Fl(RDiv(a, b))

\* Python truthiness of an optional number: None and 0 are falsy.
Truthy(x) == x # None /\ x[1] # 0

\* f"{x:.kf}": the value in units of 1/scale, rounded half to even.
Fmt(x, scale) ==
    LET n == x[1] * scale
        d == x[2]
        q == n \div d
        r == n - q * d
    IN  IF 2 * r < d THEN q
        ELSE IF 2 * r > d THEN q + 1
        ELSE IF q % 2 = 0 THEN q ELSE q + 1

Fmt2(x) == Fmt(x, 100)

\* ------------------------------------------------------------ price series
\* A DataFrame of closes, or None.
NoHist == [present |-> FALSE, close |-> <<>>]
Hist(s) == [present |-> TRUE, close |-> s]

HistLen(h) == Len(h.close)

\* DataFrame.tail(n): the last n rows, all of them when there are fewer.
TailN(s, n) == IF Len(s) <= n THEN s ELSE SubSeq(s, Len(s) - n + 1, Len(s))

RECURSIVE SeqMin(_)
SeqMin(s) ==
    IF Len(s) = 1 THEN s[1]
    ELSE LET m == SeqMin(SubSeq(s, 2, Len(s))) IN IF s[1] < m THEN s[1] ELSE m

RECURSIVE SeqMax(_)
SeqMax(s) ==
    IF Len(s) = 1 THEN s[1]
    ELSE LET m == SeqMax(SubSeq(s, 2, Len(s))) IN IF s[1] > m THEN s[1] ELSE m

RECURSIVE SeqSum(_)
SeqSum(s) == IF Len(s) = 0 THEN 0 ELSE s[1] + SeqSum(SubSeq(s, 2, Len(s)))

\* Series.mean()
Mean(s) == Norm(SeqSum(s), Len(s))

SeqsUpTo(S, n) == UNION {[1..k -> S] : k \in 0..n}

\* ------------------------------------------------ calculate_dollar_gap_ratio
NoStats == [present |-> FALSE, current |-> None, mid |-> None,
            min |-> None, max |-> None]

\* The early return of line 48: a tuple of five None values, not None.
NoneTuple5 ==
    [kind |-> "tuple", rate_vs_mid |-> None, dxy_vs_mid |-> None,
     current_gap_ratio |-> None, mid_gap_ratio |-> None,
     appropriate_rate |-> None, rate_stats |-> NoStats, dxy_stats |-> NoStats]

\* The value None as an analysis.
GapNone ==
    [kind |-> "none", rate_vs_mid |-> None, dxy_vs_mid |-> None,
     current_gap_ratio |-> None, mid_gap_ratio |-> None,
     appropriate_rate |-> None, rate_stats |-> NoStats, dxy_stats |-> NoStats]

\* (min + max) / 2 over the last period_days closes
WindowMid(h, p_days) ==
    LET recent == TailN(h.close, p_days)
    IN  FDiv(FAdd(R(SeqMin(recent)), R(SeqMax(recent))), R(2))

\* ((current - mid) / mid) * 100
VsMid(current, mid) == FMul(FDiv(FSub(current, mid), mid), R(100))

\* (dxy / rate) * 100
GapRatio(dxy, rate) == FMul(FDiv(dxy, rate), R(100))

DxyLongEnough_NonEmpty(d_hist, p_days) ==
    d_hist.present /\ HistLen(d_hist) >= 1

DxyLongEnough(d_hist, p_days) ==
    d_hist.present /\ HistLen(d_hist) >= p_days

calculate_dollar_gap_ratio(cur_rate, r_hist, cur_dxy, d_hist, p_days) ==
    IF ~r_hist.present \/ HistLen(r_hist) < p_days
    THEN NoneTuple5
    ELSE
    LET recent_rate == TailN(r_hist.close, p_days)
        rate_min == R(SeqMin(recent_rate))
        rate_max == R(SeqMax(recent_rate))
        rate_mid == WindowMid(r_hist, p_days)
        rate_vs_mid == VsMid(cur_rate, rate_mid)
        long == DxyLongEnough(d_hist, p_days)
        recent_dxy == TailN(d_hist.close, p_days)
        dxy_mid == IF long THEN WindowMid(d_hist, p_days) ELSE None
        dxy_vs_mid == IF long /\ Truthy(cur_dxy)
                      THEN VsMid(cur_dxy, dxy_mid) ELSE None
        gap == Truthy(cur_dxy) /\ RGt(cur_rate, R(0))
        current_gap_ratio == IF gap THEN GapRatio(cur_dxy, cur_rate) ELSE None
        mid_gap_ratio == IF gap /\ Truthy(dxy_mid)
                         THEN GapRatio(dxy_mid, rate_mid) ELSE None
        appropriate_rate == IF gap /\ Truthy(dxy_mid)
                            THEN FMul(FDiv(cur_dxy, mid_gap_ratio), R(100))
                            ELSE None
    IN  [kind |-> "dict",
         rate_vs_mid |-> rate_vs_mid,
         dxy_vs_mid |-> dxy_vs_mid,
         current_gap_ratio |-> current_gap_ratio,
         mid_gap_ratio |-> mid_gap_ratio,
         appropriate_rate |-> appropriate_rate,
         rate_stats |-> [present |-> TRUE, current |-> cur_rate,
                         mid |-> rate_mid, min |-> rate_min, max |-> rate_max],
         dxy_stats |-> IF long
                       THEN [present |-> TRUE, current |-> cur_dxy,
                             mid |-> dxy_mid,
                             min |-> R(SeqMin(recent_dxy)),
                             max |-> R(SeqMax(recent_dxy))]
                       ELSE NoStats]

\* --------------------------------------------- get_investment_recommendation
\* One evidence line: the condition it is about, its mark, and the number
\* the message shows (None when the message shows no number).
Entry(c, p, n) == [cond |-> c, passed |-> p, shown |-> n]

\* A number as a message shows it: two decimals, held in hundredths.
Shown(x) == <<Fmt2(x)>>

Cond1Present(g) == g.rate_vs_mid # None
Cond1Met_NonStrict(g) == RLe(g.rate_vs_mid, R(0))

Cond1Met(g) == RLt(g.rate_vs_mid, R(0))
Cond1Entry(g) ==
    IF Cond1Met(g) THEN Entry(1, TRUE, None)
    ELSE Entry(1, FALSE, Shown(g.rate_vs_mid))

Cond2Present(g) == g.dxy_vs_mid # None
Cond2Met(g) == RLt(g.dxy_vs_mid, R(0))
Cond2Entry(g) ==
    IF Cond2Met(g) THEN Entry(2, TRUE, None)
    ELSE Entry(2, FALSE, Shown(g.dxy_vs_mid))

Cond3Present(g) == g.current_gap_ratio # None /\ g.mid_gap_ratio # None
gap_diff(g) == FSub(g.current_gap_ratio, g.mid_gap_ratio)
Cond3Met(g) == RGt(gap_diff(g), R(0))
Cond3Entry(g) == Entry(3, Cond3Met(g), Shown(gap_diff(g)))

Cond4Present(g) == g.appropriate_rate # None /\ g.rate_stats.current # None
rate_diff(g) == FSub(g.rate_stats.current, g.appropriate_rate)
rate_diff_pct(g) == FMul(FDiv(rate_diff(g), g.appropriate_rate), R(100))
Cond4Met(g) == RLt(rate_diff(g), R(0))
Cond4Entry(g) == Entry(4, Cond4Met(g), Shown(rate_diff_pct(g)))

Decide_StrictBuy(met, total) ==
    IF total = 0 THEN "insufficient_data"
    ELSE IF met = total THEN "strong_buy"
    ELSE IF RGt(R(met), RMul(R(total), <<3, 4>>)) THEN "buy_consider"
    ELSE IF RGe(R(met), RMul(R(total), <<1, 2>>)) THEN "hold"
    ELSE IF RGe(R(met), RMul(R(total), <<1, 4>>)) THEN "caution"
    ELSE "avoid"

\* The final if/elif chain on (conditions_met, total_conditions).
Decide(met, total) ==
    IF total = 0 THEN "insufficient_data"
    ELSE IF met = total THEN "strong_buy"
    ELSE IF RGe(R(met), RMul(R(total), <<3, 4>>)) THEN "buy_consider"
    ELSE IF RGe(R(met), RMul(R(total), <<1, 2>>)) THEN "hold"
    ELSE IF RGe(R(met), RMul(R(total), <<1, 4>>)) THEN "caution"
    ELSE "avoid"

\* --------------------------------------------------------- analyze_dxy_trend
\* "up" is the label 상승, "down" the label 하락.
TrendLabel_NonStrict(current, average) ==
    IF RGe(current, average) THEN "up" ELSE "down"

TrendLabel(current, average) == IF RGt(current, average) THEN "up" ELSE "down"

analyze_dxy_trend(d_hist) ==
    IF ~d_hist.present \/ HistLen(d_hist) < TrendWindow
    THEN <<"None", "None">>
    ELSE
    LET recent == TailN(d_hist.close, TrendWindow)
        current == R(recent[Len(recent)])
        ma20 == Mean(recent)
        ma5 == Mean(TailN(recent, ShortWindow))
    IN  <<TrendLabel(current, ma20), TrendLabel(current, ma5)>>

\* ---------------------------------------------- calculate_investment_details
fee_rate == <<2, 1000>>

NoDetails ==
    [present |-> FALSE, investment_amount |-> None, current_rate |-> None,
     dollar_amount |-> None, fee |-> None, net_investment |-> None,
     net_dollar |-> None, fee_rate |-> None]

Fee(amount) == RMul(amount, Norm(fee_rate[1], fee_rate[2]))
NetInvestment_PlusFee(amount) == RAdd(amount, Fee(amount))

NetInvestment(amount) == RSub(amount, Fee(amount))

calculate_investment_details(amount, rate) ==
    IF rate = None THEN NoDetails
    ELSE [present |-> TRUE,
          investment_amount |-> amount,
          current_rate |-> rate,
          dollar_amount |-> RDiv(amount, rate),
          fee |-> Fee(amount),
          net_investment |-> NetInvestment(amount),
          net_dollar |-> RDiv(NetInvestment(amount), rate),
          fee_rate |-> RMul(Norm(fee_rate[1], fee_rate[2]), R(100))]

\* ------------------------------------------------------------ scenario table
scenarios == <<-5, -3, -1, 0, 1, 3, 5>>

NewRate(rate, pct) ==
    RMul(rate, RAdd(R(1), RDiv(R(pct), R(100))))
NewDollar_Gross(details, rate, pct) ==
    RDiv(details.investment_amount, NewRate(rate, pct))

NewDollar(details, rate, pct) ==
    RDiv(details.net_investment, NewRate(rate, pct))
ProfitLoss(details, rate, pct) ==
    RMul(RSub(NewDollar(details, rate, pct), details.net_dollar), rate)

\* The row appended for one change_pct: the four formatted columns.
ScenarioRow(details, rate, pct) ==
    [change |-> Fmt(R(pct), 10),
     rate |-> Fmt2(NewRate(rate, pct)),
     dollar |-> Fmt2(NewDollar(details, rate, pct)),
     profit_loss |-> Fmt(ProfitLoss(details, rate, pct), 1)]

\* ------------------------------------------------------------------- state
VARIABLES
    pc,                 \* position in the main block / the recommendation
    current_rate, rate_hist, current_dxy, dxy_hist, period_days,
    gap_data,           \* what calculate_dollar_gap_ratio returned
    recommendations, conditions_met, total_conditions,
    decision, explanation,
    dxy_trend, dxy_short_trend,     \* what analyze_dxy_trend returned
    investment_amount, investment_details,
    scenario_data,      \* the rows of the scenario table
    change_pct, new_rate, new_dollar, profit_loss,  \* the loop's locals
    amount_input, period_input,     \* the sidebar widgets' values
    clicked,            \* the button whose click started this script run
    session             \* st.session_state

gapVars == <<pc, current_rate, rate_hist, current_dxy, dxy_hist, period_days,
             gap_data, recommendations, conditions_met, total_conditions,
             decision, explanation>>

trendVars == <<dxy_trend, dxy_short_trend>>
loopVars == <<scenario_data, change_pct, new_rate, new_dollar, profit_loss>>
investVars == <<investment_amount, investment_details, loopVars>>

sessionVars == <<amount_input, period_input, clicked, session>>

vars == <<gapVars, trendVars, investVars, sessionVars>>

inputVars == <<current_rate, rate_hist, current_dxy, dxy_hist, period_days>>
recVars == <<recommendations, conditions_met, total_conditions,
             decision, explanation>>

\* ------------------------------------------------------------------ inputs
Prices == 1..MaxPrice
DxyPrices == 1..MaxDxy
OptRates == {None} \cup {R(p) : p \in 0..MaxPrice}
OptDxys == {None} \cup {R(p) : p \in 0..MaxDxy}
RateHists == {NoHist} \cup {Hist(s) : s \in SeqsUpTo(Prices, MaxLen)}
DxyHists == {NoHist} \cup {Hist(s) : s \in SeqsUpTo(DxyPrices, MaxLen)}
Windows == 1..MaxWindow

Margins == {None} \cup {R(m) : m \in (-MaxMargin)..MaxMargin}
Ratios == {None} \cup {R(p) : p \in Prices}

\* Analyses a caller can hand to get_investment_recommendation directly:
\* every field present or absent on its own.
GapDicts ==
    {[kind |-> "dict", rate_vs_mid |-> a, dxy_vs_mid |-> b,
      current_gap_ratio |-> c, mid_gap_ratio |-> d, appropriate_rate |-> e,
      rate_stats |-> [present |-> TRUE, current |-> f, mid |-> None,
                      min |-> None, max |-> None],
      dxy_stats |-> NoStats] :
        a \in Margins, b \in Margins, c \in Ratios, d \in Ratios,
        e \in Ratios, f \in Ratios}

RecIdle ==
    /\ recommendations = <<>>
    /\ conditions_met = 0
    /\ total_conditions = 0
    /\ decision = "none"
    /\ explanation = None

\* ---------------------------------------------------------- session state
DefaultAmount == 1000000
DefaultPeriod == 252
PeriodOptions == {126, 252, 504}

\* st.session_state: the key 'analyze' is there (and True) or not; the other
\* two keys hold None / 0 while they are missing.
EmptySession ==
    [analyze |-> FALSE, investment_amount |-> None, period_days |-> 0]

\* A fresh browser session: the widgets at their defaults, nothing stored.
SessionIdle ==
    /\ amount_input = R(DefaultAmount)
    /\ period_input = DefaultPeriod
    /\ clicked = "none"
    /\ session = EmptySession

TrendIdle ==
    /\ dxy_trend = "None"
    /\ dxy_short_trend = "None"

LoopIdle ==
    /\ scenario_data = <<>>
    /\ change_pct = 0
    /\ new_rate = None
    /\ new_dollar = None
    /\ profit_loss = None

InvestIdle ==
    /\ investment_amount = None
    /\ investment_details = NoDetails
    /\ LoopIdle

\* The main block after the two fetches (lines 284-285).
InitMain ==
    /\ pc = "main"
    /\ current_rate \in OptRates
    /\ rate_hist \in RateHists
    /\ current_dxy \in OptDxys
    /\ dxy_hist \in DxyHists
    /\ period_days \in Windows
    /\ gap_data = GapNone
    /\ RecIdle
    /\ TrendIdle
    /\ SessionIdle
    /\ InvestIdle

\* get_investment_recommendation called on an analysis of the caller's.
InitDirect ==
    /\ pc = "rec_enter"
    /\ current_rate = None
    /\ rate_hist = NoHist
    /\ current_dxy = None
    /\ dxy_hist = NoHist
    /\ period_days = 0
    /\ gap_data \in GapDicts \cup {GapNone}
    /\ RecIdle
    /\ TrendIdle
    /\ SessionIdle
    /\ InvestIdle

Init == InitMain \/ InitDirect

\* ----------------------------------------------------------------- actions
\* Lines 287-293: without a rate the page shows an error; otherwise the
\* analysis is computed.
CallGapRatio ==
    /\ pc = "main"
    /\ IF current_rate = None
       THEN /\ pc' = "rate_error"
            /\ UNCHANGED gap_data
       ELSE /\ gap_data' = calculate_dollar_gap_ratio(
                               current_rate, rate_hist, current_dxy,
                               dxy_hist, period_days)
            /\ pc' = "rec_enter"
    /\ UNCHANGED <<sessionVars, inputVars, recVars, trendVars, investVars>>

\* Lines 134-139.  Subscripting a tuple with a string (line 142) raises
\* TypeError.
RecEnter ==
    /\ pc = "rec_enter"
    /\ IF gap_data.kind = "none"
       THEN /\ decision' = "insufficient_data"
            /\ explanation' = None
            /\ recommendations' = <<>>
            /\ conditions_met' = 0
            /\ total_conditions' = 0
            /\ pc' = "returned"
       ELSE /\ recommendations' = <<>>
            /\ conditions_met' = 0
            /\ total_conditions' = 0
            /\ pc' = IF gap_data.kind = "tuple" THEN "TypeError" ELSE "cond1"
            /\ UNCHANGED <<decision, explanation>>
    /\ UNCHANGED <<sessionVars, inputVars, gap_data, trendVars, investVars>>

CondStep_MetAlways(here, next, present, met, entry) ==
    /\ pc = here
    /\ pc' = next
    /\ conditions_met' = conditions_met + 1
    /\ IF present
       THEN /\ total_conditions' = total_conditions + 1
            /\ recommendations' = Append(recommendations, entry)
       ELSE UNCHANGED <<total_conditions, recommendations>>
    /\ UNCHANGED <<sessionVars, inputVars, gap_data, decision, explanation, trendVars,
                   investVars>>

CondStep_CountAlways(here, next, present, met, entry) ==
    /\ pc = here
    /\ pc' = next
    /\ total_conditions' = total_conditions + 1
    /\ IF present
       THEN /\ recommendations' = Append(recommendations, entry)
            /\ conditions_met' = IF met THEN conditions_met + 1
                                 ELSE conditions_met
       ELSE UNCHANGED <<recommendations, conditions_met>>
    /\ UNCHANGED <<sessionVars, inputVars, gap_data, decision, explanation, trendVars,
                   investVars>>

CondStep_AppendOnlyFailed(here, next, present, met, entry) ==
    /\ pc = here
    /\ pc' = next
    /\ IF present
       THEN /\ total_conditions' = total_conditions + 1
            /\ recommendations' = IF met THEN recommendations
                                  ELSE Append(recommendations, entry)
            /\ conditions_met' = IF met THEN conditions_met + 1
                                 ELSE conditions_met
       ELSE UNCHANGED <<total_conditions, recommendations, conditions_met>>
    /\ UNCHANGED <<sessionVars, inputVars, gap_data, decision, explanation, trendVars,
                   investVars>>

\* One condition block: counted when present, appended, met when it holds.
CondStep(here, next, present, met, entry) ==
    /\ pc = here
    /\ pc' = next
    /\ IF present
       THEN /\ total_conditions' = total_conditions + 1
            /\ recommendations' = Append(recommendations, entry)
            /\ conditions_met' = IF met THEN conditions_met + 1
                                 ELSE conditions_met
       ELSE UNCHANGED <<total_conditions, recommendations, conditions_met>>
    /\ UNCHANGED <<sessionVars, inputVars, gap_data, decision, explanation, trendVars,
                   investVars>>

RecCond1 ==
    CondStep("cond1", "cond2", Cond1Present(gap_data),
             Cond1Met(gap_data), Cond1Entry(gap_data))
RecCond2 ==
    CondStep("cond2", "cond3", Cond2Present(gap_data),
             Cond2Met(gap_data), Cond2Entry(gap_data))
RecCond3 ==
    CondStep("cond3", "cond4", Cond3Present(gap_data),
             Cond3Met(gap_data), Cond3Entry(gap_data))
RecCond4 ==
    CondStep("cond4", "decide", Cond4Present(gap_data),
             Cond4Met(gap_data), Cond4Entry(gap_data))

\* Lines 181-200.
RecDecide ==
    /\ pc = "decide"
    /\ decision' = Decide(conditions_met, total_conditions)
    /\ explanation' = IF total_conditions = 0 THEN None ELSE R(conditions_met)
    /\ pc' = "returned"
    /\ UNCHANGED <<sessionVars, inputVars, gap_data, recommendations, conditions_met,
                   total_conditions, trendVars, investVars>>

Next ==
    \/ CallGapRatio
    \/ RecEnter
    \/ RecCond1
    \/ RecCond2
    \/ RecCond3
    \/ RecCond4
    \/ RecDecide

Spec == Init /\ [][Next]_vars

\* ------------------------------------------------------- the trend classifier
TrendPrices == 1..MaxTrendPrice

\* Series that stay at one close for k days and then move for up to MaxTail.
TrendHists ==
    {NoHist} \cup
    {Hist([i \in 1..k |-> b] \o t) :
        k \in 0..MaxFlat, b \in TrendPrices,
        t \in SeqsUpTo(TrendPrices, MaxTail)}

InitTrend ==
    /\ pc = "trend"
    /\ dxy_hist \in TrendHists
    /\ current_rate = None
    /\ rate_hist = NoHist
    /\ current_dxy = None
    /\ period_days = 0
    /\ gap_data = GapNone
    /\ RecIdle
    /\ TrendIdle
    /\ SessionIdle
    /\ InvestIdle

\* Line 296.
CallTrend ==
    /\ pc = "trend"
    /\ dxy_trend' = analyze_dxy_trend(dxy_hist)[1]
    /\ dxy_short_trend' = analyze_dxy_trend(dxy_hist)[2]
    /\ pc' = "trend_returned"
    /\ UNCHANGED <<sessionVars, inputVars, gap_data, recVars, investVars>>

\* Lines 486-493: the trend section is drawn only for a trend that is there.
ShowTrend ==
    /\ pc = "trend_returned"
    /\ pc' = IF dxy_trend # "None" THEN "trend_shown" ELSE "trend_hidden"
    /\ UNCHANGED <<sessionVars, inputVars, gap_data, recVars, trendVars, investVars>>

NextTrend ==
    \/ CallTrend
    \/ ShowTrend

SpecTrend == InitTrend /\ [][NextTrend]_vars

\* ------------------------------------------------------ the sizing calculator
Amounts == {R(k * AmountStep) : k \in 1..MaxAmountUnits}
InvRates == {None} \cup {R(1200 + 50 * i) : i \in 1..MaxRateIdx}

InitInvest ==
    /\ pc = "invest"
    /\ investment_amount \in Amounts
    /\ current_rate \in InvRates
    /\ rate_hist = NoHist
    /\ current_dxy = None
    /\ dxy_hist = NoHist
    /\ period_days = 0
    /\ gap_data = GapNone
    /\ investment_details = NoDetails
    /\ RecIdle
    /\ TrendIdle
    /\ SessionIdle
    /\ LoopIdle

\* Line 302.
CallInvestmentDetails ==
    /\ pc = "invest"
    /\ investment_details' =
           calculate_investment_details(investment_amount, current_rate)
    /\ pc' = "details"
    /\ UNCHANGED <<sessionVars, inputVars, gap_data, recVars, trendVars,
                   investment_amount, loopVars>>

\* Lines 445-468: the table is built only when there are details.
ScenarioStart ==
    /\ pc = "details"
    /\ scenario_data' = <<>>
    /\ pc' = IF investment_details.present THEN "scenario" ELSE "done"
    /\ UNCHANGED <<sessionVars, inputVars, gap_data, recVars, trendVars,
                   investment_amount, investment_details, change_pct,
                   new_rate, new_dollar, profit_loss>>

\* Lines 470-480: one pass of the loop.
ScenarioStep ==
    /\ pc = "scenario"
    /\ Len(scenario_data) < Len(scenarios)
    /\ LET pct == scenarios[Len(scenario_data) + 1]
       IN  /\ change_pct' = pct
           /\ new_rate' = NewRate(current_rate, pct)
           /\ new_dollar' = NewDollar(investment_details, current_rate, pct)
           /\ profit_loss' = ProfitLoss(investment_details, current_rate, pct)
           /\ scenario_data' =
                  Append(scenario_data,
                         ScenarioRow(investment_details, current_rate, pct))
    /\ UNCHANGED <<pc, sessionVars, inputVars, gap_data, recVars, trendVars,
                   investment_amount, investment_details>>

\* Lines 482-483: the loop has run through the list.
ScenarioDone ==
    /\ pc = "scenario"
    /\ Len(scenario_data) = Len(scenarios)
    /\ pc' = "done"
    /\ UNCHANGED <<sessionVars, inputVars, gap_data, recVars, trendVars, investVars>>

NextInvest ==
    \/ CallInvestmentDetails
    \/ ScenarioStart
    \/ ScenarioStep
    \/ ScenarioDone

SpecInvest == InitInvest /\ [][NextInvest]_vars

\* ------------------------------------------------------- the sidebar session
SessionAmounts == {R(k * AmountStep) : k \in 0..MaxAmountUnits}

InitSession ==
    /\ pc = "wait"
    /\ current_rate = None
    /\ rate_hist = NoHist
    /\ current_dxy = None
    /\ dxy_hist = NoHist
    /\ period_days = 0
    /\ gap_data = GapNone
    /\ RecIdle
    /\ TrendIdle
    /\ InvestIdle
    /\ SessionIdle

\* A script run starts: the locals are fresh, investment_amount and
\* period_days are the widgets' values (lines 242-260).
StartRun(amount, period, button) ==
    /\ pc = "wait"
    /\ pc' = "analyze_button"
    /\ amount_input' = amount
    /\ period_input' = period
    /\ clicked' = button
    /\ investment_amount' = amount
    /\ period_days' = period
    /\ current_rate' = None
    /\ investment_details' = NoDetails
    /\ UNCHANGED <<session, rate_hist, current_dxy, dxy_hist, gap_data,
                   recVars, trendVars, loopVars>>

\* The user's actions; each one reruns the script.
ChangeAmount ==
    \E a \in SessionAmounts : a # amount_input /\ StartRun(a, period_input, "none")
ChangePeriod ==
    \E p \in PeriodOptions : p # period_input /\ StartRun(amount_input, p, "none")
ClickAnalyze == StartRun(amount_input, period_input, "analyze")
ClickReset == StartRun(amount_input, period_input, "reset")
PageRerun == StartRun(amount_input, period_input, "none")

AmountRejected_OnlyNegative(amount) == RLt(amount, R(0))

\* Line 265.
AmountRejected(amount) == RLe(amount, R(0))

\* Lines 264-270.
AnalyzeButton ==
    /\ pc = "analyze_button"
    /\ pc' = "reset_button"
    /\ IF clicked = "analyze" /\ ~AmountRejected(investment_amount)
       THEN session' = [analyze |-> TRUE,
                        investment_amount |-> investment_amount,
                        period_days |-> period_days]
       ELSE UNCHANGED session
    /\ UNCHANGED <<amount_input, period_input, clicked, inputVars, gap_data,
                   recVars, trendVars, investVars>>

\* Lines 272-275: reset drops the flag and st.rerun() starts the script over,
\* with no button clicked.
ResetButton ==
    /\ pc = "reset_button"
    /\ IF clicked = "reset"
       THEN /\ session' = [session EXCEPT !.analyze = FALSE]
            /\ clicked' = "none"
            /\ pc' = "analyze_button"
       ELSE /\ pc' = "main_block"
            /\ UNCHANGED <<session, clicked>>
    /\ UNCHANGED <<amount_input, period_input, inputVars, gap_data,
                   recVars, trendVars, investVars>>

\* session_state.get(key, default)
SessionAmount == IF session.investment_amount = None THEN R(0)
                 ELSE session.investment_amount
SessionPeriod == IF session.period_days = 0 THEN DefaultPeriod
                 ELSE session.period_days

\* Lines 278-285: with the flag set the stored values replace the widgets'
\* and the rate is fetched (None when the fetch fails).
MainBlock ==
    /\ pc = "main_block"
    /\ IF session.analyze
       THEN /\ investment_amount' = SessionAmount
            /\ period_days' = SessionPeriod
            /\ current_rate' \in InvRates
            /\ pc' = "fetched"
       ELSE /\ pc' = "wait"
            /\ UNCHANGED <<investment_amount, period_days, current_rate>>
    /\ UNCHANGED <<sessionVars, rate_hist, current_dxy, dxy_hist, gap_data,
                   recVars, trendVars, investment_details, loopVars>>

\* Lines 287-299: without a rate the run ends with an error message; with one
\* the analysis and the recommendation run, and either raise (a history
\* shorter than period_days) or return.
MainAnalysis ==
    /\ pc = "fetched"
    /\ IF current_rate = None
       THEN pc' = "wait"
       ELSE \E raised \in BOOLEAN : pc' = IF raised THEN "wait" ELSE "sizing"
    /\ UNCHANGED <<sessionVars, inputVars, gap_data, recVars, trendVars,
                   investVars>>

\* Line 302.
CallSizing ==
    /\ pc = "sizing"
    /\ investment_details' =
           calculate_investment_details(investment_amount, current_rate)
    /\ pc' = "wait"
    /\ UNCHANGED <<sessionVars, inputVars, gap_data, recVars, trendVars,
                   investment_amount, loopVars>>

NextSession ==
    \/ ChangeAmount
    \/ ChangePeriod
    \/ ClickAnalyze
    \/ ClickReset
    \/ PageRerun
    \/ AnalyzeButton
    \/ ResetButton
    \/ MainBlock
    \/ MainAnalysis
    \/ CallSizing

SpecSession == InitSession /\ [][NextSession]_vars

\* ================================================================== claims
\* The main block has called calculate_dollar_gap_ratio.
AfterGapCall == period_days > 0 /\ current_rate # None /\ pc # "main"

RateLongEnough == rate_hist.present /\ HistLen(rate_hist) >= period_days

\* The recommendation is running on, or has returned from, a dict.
RecStages == {"cond1", "cond2", "cond3", "cond4", "decide", "returned"}
InRec == gap_data.kind = "dict" /\ pc \in RecStages

\* How many of the four condition blocks have run at this position.
BlocksRun ==
    CASE pc = "cond1" -> 0
      [] pc = "cond2" -> 1
      [] pc = "cond3" -> 2
      [] pc = "cond4" -> 3
      [] OTHER -> 4

\* ---- C1
\* C1: a rate series shorter than the window makes calculate_dollar_gap_ratio
\* return the absent analysis, and the recommendation computed from that
\* return value is the fixed "insufficient data" one (no evidence, 0 met),
\* with no error raised.
C1_ShortHistoryRecoverable ==
    (AfterGapCall /\ ~RateLongEnough) =>
        /\ gap_data.kind # "dict"
        /\ pc # "TypeError"
        /\ (pc = "returned" =>
                /\ decision = "insufficient_data"
                /\ recommendations = <<>>
                /\ conditions_met = 0)

\* ---- C2
\* The decision table of the claim, on integers.
DecisionTable(met, total) ==
    IF total = 0 THEN "insufficient_data"
    ELSE IF met = total THEN "strong_buy"
    ELSE IF 4 * met >= 3 * total THEN "buy_consider"
    ELSE IF 2 * met >= total THEN "hold"
    ELSE IF 4 * met >= total THEN "caution"
    ELSE "avoid"

\* C2: the returned decision label is the ordered table's entry for
\* (conditions_met, conditions_total), for every 0 <= met <= total <= 4;
\* (3, 4) gives buy-consider.
C2_DecisionFollowsTable ==
    pc = "returned" =>
        /\ decision = DecisionTable(conditions_met, total_conditions)
        /\ (conditions_met = 3 /\ total_conditions = 4
                => decision = "buy_consider")

C2_Witness ==
    /\ pc = "returned"
    /\ conditions_met = 3
    /\ total_conditions = 4
    /\ decision = "buy_consider"

\* ---- C3
Count(b) == IF b THEN 1 ELSE 0

\* The inputs each condition needs, read off the analysis.
InputsPresent(g, i) ==
    CASE i = 1 -> g.rate_vs_mid # None
      [] i = 2 -> g.dxy_vs_mid # None
      [] i = 3 -> g.current_gap_ratio # None /\ g.mid_gap_ratio # None
      [] i = 4 -> g.appropriate_rate # None /\ g.rate_stats.current # None

RECURSIVE PresentUpTo(_, _)
PresentUpTo(g, n) ==
    IF n = 0 THEN 0 ELSE Count(InputsPresent(g, n)) + PresentUpTo(g, n - 1)

\* C3: at every point of the evaluation and at return,
\* 0 <= conditions_met <= conditions_total <= 4, and conditions_total counts
\* exactly the conditions run so far whose inputs are present.
C3_CountsBounded ==
    InRec =>
        /\ 0 <= conditions_met
        /\ conditions_met <= total_conditions
        /\ total_conditions <= 4
        /\ total_conditions = PresentUpTo(gap_data, BlocksRun)

C3_Witness ==
    /\ InRec
    /\ pc = "returned"
    /\ total_conditions = 3
    /\ conditions_met = 2
    /\ ~InputsPresent(gap_data, 2)

\* ---- C4
DxyShort == ~dxy_hist.present \/ HistLen(dxy_hist) < period_days

\* C4 as stated: with enough rate history and a DXY series that is absent or
\* shorter than the window, an analysis is returned in which dxy_stats and
\* dxy_vs_mid, current_gap_ratio, mid_gap_ratio and fair_value_rate are all
\* absent, whatever dxy_current is.
C4_Original ==
    (AfterGapCall /\ RateLongEnough /\ DxyShort) =>
        /\ gap_data.kind = "dict"
        /\ ~gap_data.dxy_stats.present
        /\ gap_data.dxy_vs_mid = None
        /\ gap_data.current_gap_ratio = None
        /\ gap_data.mid_gap_ratio = None
        /\ gap_data.appropriate_rate = None

\* C4 (amended): with enough rate history and a DXY series that is absent or
\* shorter than the window, an analysis is returned in which dxy_stats,
\* dxy_vs_mid, mid_gap_ratio and fair_value_rate are absent; current_gap_ratio
\* is absent exactly when dxy_current is absent or zero or rate_current is
\* not positive, and is the float (dxy_current / rate_current) * 100
\* otherwise.
C4_DxyShortDegrades ==
    (AfterGapCall /\ RateLongEnough /\ DxyShort) =>
        /\ gap_data.kind = "dict"
        /\ ~gap_data.dxy_stats.present
        /\ gap_data.dxy_vs_mid = None
        /\ gap_data.mid_gap_ratio = None
        /\ gap_data.appropriate_rate = None
        /\ IF current_dxy # None /\ current_dxy[1] # 0 /\ current_rate[1] > 0
           THEN /\ gap_data.current_gap_ratio # None
                /\ gap_data.current_gap_ratio
                   = Fl(RMul(Fl(RDiv(current_dxy, current_rate)), R(100)))
           ELSE gap_data.current_gap_ratio = None

C4_Witness ==
    /\ AfterGapCall /\ RateLongEnough
    /\ dxy_hist.present /\ HistLen(dxy_hist) >= 1 /\ DxyShort
    /\ current_dxy # None /\ current_dxy[1] > 0
    /\ gap_data.kind = "dict"
    /\ gap_data.current_gap_ratio # None
    /\ gap_data.mid_gap_ratio = None

\* ---- C5
\* C5: with enough rate history and dxy_current absent, dxy_vs_mid,
\* current_gap_ratio, mid_gap_ratio and fair_value_rate are all absent
\* whatever the length of dxy_series, and the recommendation evaluates at
\* most one condition.
C5_NoDxyCurrent ==
    (AfterGapCall /\ RateLongEnough /\ current_dxy = None) =>
        /\ gap_data.kind = "dict"
        /\ gap_data.dxy_vs_mid = None
        /\ gap_data.current_gap_ratio = None
        /\ gap_data.mid_gap_ratio = None
        /\ gap_data.appropriate_rate = None
        /\ total_conditions <= 1
        /\ (pc = "returned" =>
                /\ total_conditions = 1
                /\ recommendations[1].cond = 1)

C5_Witness ==
    /\ AfterGapCall /\ RateLongEnough /\ current_dxy = None
    /\ dxy_hist.present /\ HistLen(dxy_hist) >= period_days
    /\ gap_data.dxy_stats.present
    /\ pc = "returned"
    /\ total_conditions = 1

\* ---- C6
\* The margin of condition i is exactly zero.
ZeroMargin(g, i) ==
    CASE i = 1 -> g.rate_vs_mid = R(0)
      [] i = 2 -> g.dxy_vs_mid = R(0)
      [] i = 3 -> g.current_gap_ratio = g.mid_gap_ratio
      [] i = 4 -> g.rate_stats.current = g.appropriate_rate

Failed(i) ==
    \E k \in 1..Len(recommendations) :
        recommendations[k].cond = i /\ ~recommendations[k].passed

NumPassed ==
    Cardinality({k \in 1..Len(recommendations) : recommendations[k].passed})

\* The rate sits exactly on the midpoint of its window: 2 * current = min + max.
RateOnMidpoint ==
    LET st == gap_data.rate_stats
    IN  2 * st.current[1] = (st.min[1] + st.max[1]) * st.current[2]

\* C6: every condition test is strict: a condition that has run with a margin
\* of exactly zero is counted in conditions_total and is not met; a rate equal
\* to the midpoint of its window has rate_vs_mid = 0 and fails condition 1,
\* and equal gap ratios fail condition 3.
C6_ZeroMarginNotMet ==
    InRec =>
        /\ total_conditions = Len(recommendations)
        /\ conditions_met = NumPassed
        /\ \A i \in 1..BlocksRun :
               (InputsPresent(gap_data, i) /\ ZeroMargin(gap_data, i))
                   => Failed(i)
        /\ (AfterGapCall /\ RateOnMidpoint) => gap_data.rate_vs_mid = R(0)

C6_Witness ==
    /\ InRec /\ AfterGapCall
    /\ pc = "returned"
    /\ RateOnMidpoint
    /\ RLt(gap_data.rate_stats.min, gap_data.rate_stats.max)
    /\ InputsPresent(gap_data, 3) /\ ZeroMargin(gap_data, 3)
    /\ Failed(1) /\ Failed(3)
    /\ total_conditions = 4

\* ---- C7
LastClose == dxy_hist.close[Len(dxy_hist.close)]
SumLast(n) == SeqSum(SubSeq(dxy_hist.close, Len(dxy_hist.close) - n + 1,
                            Len(dxy_hist.close)))

\* C7: analyze_dxy_trend returns absent for no series or fewer than 20
\* observations; otherwise medium_term is "up" exactly when the latest value
\* is strictly above the mean of the last 20 and short_term is "up" exactly
\* when it is strictly above the mean of the last 5; a tie is "down".
C7_TrendStrict ==
    pc \in {"trend_returned", "trend_shown", "trend_hidden"} =>
        IF ~dxy_hist.present \/ Len(dxy_hist.close) < 20
        THEN dxy_trend = "None" /\ dxy_short_trend = "None"
        ELSE /\ dxy_trend \in {"up", "down"}
             /\ dxy_short_trend \in {"up", "down"}
             /\ dxy_trend = "up" <=> 20 * LastClose > SumLast(20)
             /\ dxy_short_trend = "up" <=> 5 * LastClose > SumLast(5)

C7_Witness ==
    /\ pc = "trend_returned"
    /\ dxy_hist.present /\ Len(dxy_hist.close) >= 20
    /\ 5 * LastClose = SumLast(5)
    /\ 20 * LastClose > SumLast(20)
    /\ dxy_trend = "up"
    /\ dxy_short_trend = "down"

\* ---- C8
ClaimedPcts == <<-5, -3, -1, 0, 1, 3, 5>>

\* C8: the scenario table has one row per pct of {-5,-3,-1,0,1,3,5}, in that
\* order; each pass computes projected_rate = rate * (1 + pct/100) and
\* profit_loss = (net_amount / projected_rate - quantity_net) * rate; the
\* pct = 0 row has projected_rate = rate and profit_loss = 0.
C8_ScenarioTable ==
    (pc \in {"scenario", "done"} /\ investment_details.present) =>
        LET n == Len(scenario_data) IN
        /\ n <= 7
        /\ pc = "done" => n = 7
        /\ \A i \in 1..n : scenario_data[i].change = 10 * ClaimedPcts[i]
        /\ n >= 1 =>
              /\ change_pct = ClaimedPcts[n]
              /\ new_rate = RDiv(RMul(current_rate, R(100 + change_pct)),
                                 R(100))
              /\ profit_loss =
                     RMul(RSub(RDiv(investment_details.net_investment,
                                    new_rate),
                               investment_details.net_dollar),
                          current_rate)
        /\ n = 4 =>
              /\ new_rate = current_rate
              /\ profit_loss = R(0)
        /\ n >= 4 =>
              /\ scenario_data[4].rate = Fmt(current_rate, 100)
              /\ scenario_data[4].profit_loss = 0

C8_Witness ==
    /\ pc = "scenario"
    /\ investment_details.present
    /\ investment_amount = R(1000000)
    /\ Len(scenario_data) = 4
    /\ change_pct = 0
    /\ new_rate = current_rate
    /\ profit_loss = R(0)

\* ---- C9
\* C9: for gross_amount > 0 and rate > 0 the details have
\* fee = gross * 0.002, net = gross - fee (fee + net = gross),
\* quantity_gross = gross / rate and quantity_net = net / rate <= quantity_gross;
\* 1,000,000 at 1300 gives fee 2000 and net 998000.
C9_Details ==
    (pc # "invest" /\ current_rate # None) =>
        LET d == investment_details
            g == investment_amount
        IN  /\ d.present
            /\ RGt(g, R(0)) /\ RGt(current_rate, R(0))
            /\ 1000 * d.fee[1] * g[2] = 2 * g[1] * d.fee[2]
            /\ d.net_investment = RSub(g, d.fee)
            /\ RAdd(d.fee, d.net_investment) = g
            /\ d.dollar_amount[1] * current_rate[1] * g[2]
                   = g[1] * current_rate[2] * d.dollar_amount[2]
            /\ d.net_dollar[1] * current_rate[1] * d.net_investment[2]
                   = d.net_investment[1] * current_rate[2] * d.net_dollar[2]
            /\ RLe(d.net_dollar, d.dollar_amount)
            /\ (g = R(1000000) /\ current_rate = R(1300)) =>
                   d.fee = R(2000) /\ d.net_investment = R(998000)

C9_Witness ==
    /\ pc = "details"
    /\ investment_amount = R(1000000)
    /\ current_rate = R(1300)
    /\ investment_details.fee = R(2000)
    /\ investment_details.net_investment = R(998000)
    /\ investment_details.net_dollar = <<9980, 13>>

\* ---- C10
\* One entry per evaluated condition, in condition order, as many passed as
\* conditions_met.
EvidenceShape ==
    /\ Len(recommendations) = total_conditions
    /\ NumPassed = conditions_met
    /\ \A k \in 1..Len(recommendations) :
           /\ recommendations[k].cond \in 1..BlocksRun
           /\ InputsPresent(gap_data, recommendations[k].cond)
    /\ \A j, k \in 1..Len(recommendations) :
           j < k => recommendations[j].cond < recommendations[k].cond

\* C10 as stated: the evidence has one entry per evaluated condition, in
\* condition order, with as many passed entries as conditions_met, and every
\* entry, passed or failed, carries its condition's numeric margin.
C10_Original ==
    InRec =>
        /\ EvidenceShape
        /\ \A k \in 1..Len(recommendations) :
               recommendations[k].shown # None

\* C10 (amended): the evidence has one entry per evaluated condition, in
\* condition order, with as many passed entries as conditions_met; the entries
\* of conditions 3 and 4 and the failed entries of conditions 1 and 2 carry
\* the numeric margin, the passed entries of conditions 1 and 2 carry none.
C10_EvidenceTrail ==
    InRec =>
        /\ EvidenceShape
        /\ \A k \in 1..Len(recommendations) :
               LET e == recommendations[k]
               IN  e.shown = None <=> (e.passed /\ e.cond \in {1, 2})

C10_Witness ==
    /\ InRec
    /\ pc = "returned"
    /\ total_conditions = 4
    /\ recommendations[1].passed /\ recommendations[1].shown = None
    /\ ~recommendations[2].passed /\ recommendations[2].shown # None
    /\ recommendations[3].passed /\ recommendations[3].shown # None
    /\ ~recommendations[4].passed /\ recommendations[4].shown # None

\* ---- C11
SessionAmountPositive ==
    session.analyze =>
        /\ session.investment_amount # None
        /\ RGt(session.investment_amount, R(0))

SizingAmountPositive ==
    /\ pc = "sizing" => RGt(investment_amount, R(0))
    /\ investment_details.present =>
           RGt(investment_details.investment_amount, R(0))

RejectedClick ==
    /\ pc = "analyze_button"
    /\ clicked = "analyze"
    /\ RLe(amount_input, R(0))

\* C11: across every sequence of user actions the sizing calculator is never
\* invoked with an amount <= 0: whenever the session flag 'analyze' is set the
\* stored investment_amount is > 0, and an 'analyze' click with an amount <= 0
\* leaves the session state unchanged.
C11_SizingAmountPositive ==
    /\ [](SessionAmountPositive /\ SizingAmountPositive)
    /\ [][RejectedClick => session' = session]_vars

\* A rejected click on a page that holds an earlier analysis: the calculator
\* ran on the stored amount.
C11_Witness ==
    /\ pc = "wait"
    /\ clicked = "analyze"
    /\ amount_input = R(0)
    /\ session.analyze
    /\ investment_details.present
    /\ RGt(investment_details.investment_amount, R(0))

\* ---- C12
PassedOf(i) ==
    \E k \in 1..Len(recommendations) :
        recommendations[k].cond = i /\ recommendations[k].passed

\* C12: for every analysis calculate_dollar_gap_ratio produces from positive
\* prices in which conditions 3 and 4 are both evaluated, condition 3 is met
\* if and only if condition 4 is met, so conditions_met never counts exactly
\* one of the two.
C12_Cond3IffCond4 ==
    (/\ InRec /\ AfterGapCall
     /\ pc \in {"decide", "returned"}
     /\ RGt(current_rate, R(0))
     /\ current_dxy # None /\ RGt(current_dxy, R(0))
     /\ InputsPresent(gap_data, 3) /\ InputsPresent(gap_data, 4))
        => (PassedOf(3) <=> PassedOf(4))

====
